---- MODULE Spec2Model ----
(***************************************************************************)
(* Model of snapchat_memories_gui.py: the DownloaderGUI form (mode, paths, *)
(* checkboxes, thread count), the command builder _build_args with its     *)
(* preview, and the supervisor of the one child process (start, stop,      *)
(* output, finished).  Texts are TLA+ strings, which TLC treats as         *)
(* sequences of one-character strings (Len, Head, Tail, SubSeq, \o).       *)
(***************************************************************************)
EXTENDS Integers, Sequences, FiniteSets, TLC

VARIABLES
    gui,            \* the form widgets, the command preview, and the previews the last event computed
    process,        \* self.process: 0 for None, else the index in procs of the current QProcess
    procs,          \* every QProcess object created so far, in creation order
    start_button,   \* start_button.isEnabled()
    stop_button,    \* stop_button.isEnabled()
    progress_bar,   \* minimum, maximum and value of the progress bar
    status_label,   \* the status text
    last            \* what the last handler did towards the outside: see NoEffects

vars == <<gui, process, procs, start_button, stop_button, progress_bar, status_label, last>>

----------------------------------------------------------------------------
(* Bounds of the model *)

\* most QProcess objects created in one behaviour
MaxRuns == 2
\* largest number, besides 10, written in a progress marker of the child's output
MaxNum == 3
\* latest position at which the pipe cuts a write of the child in two
MaxCut == 12

(* Program constants *)

\* threads_spin.setRange(1, 16)
ThreadsMin == 1
ThreadsMax == 16

\* sys.executable and str(self.script_path), fixed by the installation
PythonExe == "python"
ScriptPath == "download_memories.py"

\* path texts a user types or picks: empty, blank, and a name padded with blanks
SampleTexts == {"", " ", " a "}

\* exit codes a child ends with: success, and a failure with a negative code
ExitCodes == {0, -1}

----------------------------------------------------------------------------
(* Text helpers: Python's str.strip, str(int), _display_arg, " ".join *)

IsSpace(c) == c \in {" ", "\t", "\n", "\r"}

RECURSIVE LStrip(_)
LStrip(s) == IF s # "" /\ IsSpace(Head(s)) THEN LStrip(Tail(s)) ELSE s

RECURSIVE RStrip(_)
RStrip(s) ==
    IF s # "" /\ IsSpace(SubSeq(s, Len(s), Len(s)))
    THEN RStrip(SubSeq(s, 1, Len(s) - 1))
    ELSE s

Strip(s) == RStrip(LStrip(s))

DigitChar == <<"0", "1", "2", "3", "4", "5", "6", "7", "8", "9">>

RECURSIVE IntToStr(_)
IntToStr(n) ==
    IF n < 0 THEN "-" \o IntToStr(0 - n)
    ELSE IF n < 10 THEN DigitChar[n + 1]
    ELSE IntToStr(n \div 10) \o DigitChar[(n % 10) + 1]

HasChar(s, cs) == \E i \in 1..Len(s) : SubSeq(s, i, i) \in cs

_display_arg(value) ==
    IF value = "" THEN "\"\""
    ELSE IF HasChar(value, {" ", "\t", "\n", "\r"}) \/ HasChar(value, {"\"", "'"})
         THEN "\"" \o value \o "\""
         ELSE value

RECURSIVE Join(_)
Join(seq) ==
    IF seq = <<>> THEN ""
    ELSE IF Len(seq) = 1 THEN seq[1]
    ELSE seq[1] \o " " \o Join(Tail(seq))

----------------------------------------------------------------------------
(* The form *)

\* the checkboxes, in the order _connect_signals wires them to the preview
Checkboxes == <<"resume_checkbox", "retry_failed_checkbox", "test_checkbox",
                "merge_overlays_checkbox", "defer_video_overlays_checkbox",
                "videos_only_checkbox", "pictures_only_checkbox",
                "overlays_only_checkbox", "timestamp_filenames_checkbox",
                "remove_duplicates_checkbox", "join_multi_snaps_checkbox">>

CheckboxSet == {Checkboxes[i] : i \in 1..Len(Checkboxes)}

Flag(b, flag) == IF b THEN <<flag>> ELSE <<>>

\* faulty variant: --threads is emitted for a count of one as well
ThreadArgs_FromOne(g) ==
    IF g.threads_spin >= 1 THEN <<"--threads", IntToStr(g.threads_spin)>> ELSE <<>>

ThreadArgs(g) ==
    IF g.threads_spin > 1 THEN <<"--threads", IntToStr(g.threads_spin)>> ELSE <<>>

MergeArgs(g) ==
    LET merge_folder == Strip(g.merge_folder_edit)
    IN  IF merge_folder # "" THEN <<"--merge-existing", merge_folder>> ELSE <<>>

\* faulty variant: the output directory is emitted before the HTML path
PathArgs_OutputFirst(g) ==
    LET html_path == Strip(g.html_path_edit)
        output_dir == Strip(g.output_path_edit)
    IN  (IF output_dir # "" THEN <<"-o", output_dir>> ELSE <<>>)
        \o (IF html_path # "" THEN <<html_path>> ELSE <<>>)

PathArgs(g) ==
    LET html_path == Strip(g.html_path_edit)
        output_dir == Strip(g.output_path_edit)
    IN  (IF html_path # "" THEN <<html_path>> ELSE <<>>)
        \o (IF output_dir # "" THEN <<"-o", output_dir>> ELSE <<>>)

FlagArgs(g) ==
    Flag(g.resume_checkbox, "--resume")
    \o Flag(g.retry_failed_checkbox, "--retry-failed")
    \o Flag(g.test_checkbox, "--test")
    \o Flag(g.merge_overlays_checkbox, "--merge-overlays")
    \o Flag(g.defer_video_overlays_checkbox, "--defer-video-overlays")
    \o Flag(g.videos_only_checkbox, "--videos-only")
    \o Flag(g.pictures_only_checkbox, "--pictures-only")
    \o Flag(g.overlays_only_checkbox, "--overlays-only")
    \o Flag(g.timestamp_filenames_checkbox, "--timestamp-filenames")
    \o Flag(g.remove_duplicates_checkbox, "--remove-duplicates")
    \o Flag(g.join_multi_snaps_checkbox, "--join-multi-snaps")

DownloadArgs(g) == PathArgs(g) \o FlagArgs(g) \o ThreadArgs(g)

\* faulty variant: merge mode does not return early, and the download arguments follow
_build_args_NoEarlyReturn(g) ==
    IF g.mode_combo = 1 THEN MergeArgs(g) \o DownloadArgs(g) ELSE DownloadArgs(g)

_build_args(g) == IF g.mode_combo = 1 THEN MergeArgs(g) ELSE DownloadArgs(g)

_update_command_preview(g) ==
    LET args == _build_args(g)
        command == <<PythonExe, "-u", ScriptPath>> \o args
        preview == Join([i \in 1..Len(command) |-> _display_arg(command[i])])
    IN  [g EXCEPT !.command_preview = preview,
                  !.preview_calls = Append(@, args)]

_update_mode_ui(g) == [g EXCEPT !.download_visible = (g.mode_combo = 0)]

(* QCheckBox.setChecked and the toggled signal.  setChecked emits toggled   *)
(* only when the state changes; the slots run in connection order: the     *)
(* preview first (connected in the loop over all checkboxes), then the     *)
(* checkbox's own handler.                                                 *)

RECURSIVE setChecked(_, _, _)

\* faulty variant: the handler clears test and leaves retry-failed checked
_on_resume_toggled_KeepsRetry(g, checked) ==
    IF checked THEN setChecked(g, "test_checkbox", FALSE) ELSE g

_on_resume_toggled(g, checked) ==
    IF checked
    THEN setChecked(setChecked(g, "retry_failed_checkbox", FALSE), "test_checkbox", FALSE)
    ELSE g

\* faulty variant: the handler clears resume and forgets test
_on_retry_toggled_ForgetsTest(g, checked) ==
    IF checked THEN setChecked(g, "resume_checkbox", FALSE) ELSE g

_on_retry_toggled(g, checked) ==
    IF checked
    THEN setChecked(setChecked(g, "resume_checkbox", FALSE), "test_checkbox", FALSE)
    ELSE g

\* faulty variant: the handler clears merge-overlays as well, whose handler clears defer
_on_test_toggled_ClearsMerge(g, checked) ==
    IF checked
    THEN setChecked(setChecked(setChecked(g, "resume_checkbox", FALSE),
                               "retry_failed_checkbox", FALSE),
                    "merge_overlays_checkbox", FALSE)
    ELSE g

_on_test_toggled(g, checked) ==
    IF checked
    THEN setChecked(setChecked(g, "resume_checkbox", FALSE), "retry_failed_checkbox", FALSE)
    ELSE g

_on_videos_only_toggled(g, checked) ==
    IF checked THEN setChecked(g, "pictures_only_checkbox", FALSE) ELSE g

\* faulty variant: the handler clears the wrong filter
_on_pictures_only_toggled_WrongBox(g, checked) ==
    IF checked THEN setChecked(g, "overlays_only_checkbox", FALSE) ELSE g

_on_pictures_only_toggled(g, checked) ==
    IF checked THEN setChecked(g, "videos_only_checkbox", FALSE) ELSE g

\* faulty variant: the handler disables the defer control and leaves it checked
_on_merge_overlays_toggled_KeepsDefer(g, checked) ==
    [g EXCEPT !.defer_enabled = checked]

_on_merge_overlays_toggled(g, checked) ==
    LET g1 == [g EXCEPT !.defer_enabled = checked]
    IN  IF ~checked THEN setChecked(g1, "defer_video_overlays_checkbox", FALSE) ELSE g1

toggled(g, cb, checked) ==
    LET g1 == _update_command_preview(g)
    IN  CASE cb = "resume_checkbox" -> _on_resume_toggled(g1, checked)
          [] cb = "retry_failed_checkbox" -> _on_retry_toggled(g1, checked)
          [] cb = "test_checkbox" -> _on_test_toggled(g1, checked)
          [] cb = "videos_only_checkbox" -> _on_videos_only_toggled(g1, checked)
          [] cb = "pictures_only_checkbox" -> _on_pictures_only_toggled(g1, checked)
          [] cb = "merge_overlays_checkbox" -> _on_merge_overlays_toggled(g1, checked)
          [] OTHER -> g1

setChecked(g, cb, checked) ==
    IF g[cb] = checked THEN g ELSE toggled([g EXCEPT ![cb] = checked], cb, checked)

\* faulty variant: textChanged is not connected to the preview
setText_Silent(g, edit, text) == [g EXCEPT ![edit] = text]

\* QLineEdit.setText / typing: textChanged fires only on a change, and runs the preview
setText(g, edit, text) ==
    IF g[edit] = text THEN g ELSE _update_command_preview([g EXCEPT ![edit] = text])

\* the state __init__ leaves: _build_ui, _connect_signals, then the three calls
BuiltUi ==
    [mode_combo |-> 0,
     html_path_edit |-> "",
     output_path_edit |-> "memories",
     merge_folder_edit |-> "",
     resume_checkbox |-> FALSE,
     retry_failed_checkbox |-> FALSE,
     test_checkbox |-> FALSE,
     merge_overlays_checkbox |-> FALSE,
     defer_video_overlays_checkbox |-> FALSE,
     videos_only_checkbox |-> FALSE,
     pictures_only_checkbox |-> FALSE,
     overlays_only_checkbox |-> FALSE,
     timestamp_filenames_checkbox |-> FALSE,
     remove_duplicates_checkbox |-> FALSE,
     join_multi_snaps_checkbox |-> FALSE,
     defer_enabled |-> TRUE,
     threads_spin |-> 1,
     download_visible |-> TRUE,
     command_preview |-> "",
     preview_calls |-> <<>>]

Constructed ==
    _update_command_preview(
        _update_mode_ui(
            _on_merge_overlays_toggled(BuiltUi, BuiltUi.merge_overlays_checkbox)))

\* an event starts with no preview computed yet
Event(g) == [g EXCEPT !.preview_calls = <<>>]

----------------------------------------------------------------------------
(* QProgressBar, as Qt documents it: setRange resets a value that falls    *)
(* outside the new range to minimum - 1, and setValue ignores a value      *)
(* outside a range other than (0, 0).                                      *)

Max(a, b) == IF a >= b THEN a ELSE b

setRange(bar, minimum, maximum) ==
    IF minimum = bar.minimum /\ maximum = bar.maximum THEN bar
    ELSE LET b == [bar EXCEPT !.minimum = minimum, !.maximum = Max(minimum, maximum)]
         IN  IF b.value < b.minimum - 1 \/ b.value > b.maximum
             THEN [b EXCEPT !.value = b.minimum - 1]
             ELSE b

setValue(bar, value) ==
    IF \/ bar.value = value
       \/ /\ value > bar.maximum \/ value < bar.minimum
          /\ bar.maximum # 0 \/ bar.minimum # 0
    THEN bar
    ELSE [bar EXCEPT !.value = value]

----------------------------------------------------------------------------
(* The progress marker: re.compile(r"\[(\d+)/(\d+)\]").search, int(), and  *)
(* str.splitlines                                                          *)

IsDigit(c) == \E d \in 1..10 : DigitChar[d] = c

DigitValue(c) == (CHOOSE d \in 1..10 : DigitChar[d] = c) - 1

RECURSIVE StrToInt(_)
StrToInt(s) ==
    IF s = "" THEN 0
    ELSE 10 * StrToInt(SubSeq(s, 1, Len(s) - 1)) + DigitValue(SubSeq(s, Len(s), Len(s)))

\* the character at i, or the empty text past the end
At(s, i) == IF i \in 1..Len(s) THEN SubSeq(s, i, i) ELSE ""

\* the index after the longest run of digits that starts at i
RECURSIVE DigitsEnd(_, _)
DigitsEnd(s, i) == IF i <= Len(s) /\ IsDigit(At(s, i)) THEN DigitsEnd(s, i + 1) ELSE i

\* the pattern matches at i: "[", digits, "/", digits, "]"
MatchAt(s, i) ==
    /\ At(s, i) = "["
    /\ LET j == DigitsEnd(s, i + 1)
       IN  /\ j > i + 1
           /\ j <= Len(s)
           /\ At(s, j) = "/"
           /\ LET k == DigitsEnd(s, j + 1)
              IN  k > j + 1 /\ k <= Len(s) /\ At(s, k) = "]"

\* search: the leftmost match, as [current, total], or the empty sequence for None
_progress_re_search(line) ==
    LET starts == {i \in 1..Len(line) : MatchAt(line, i)}
    IN  IF starts = {} THEN <<>>
        ELSE LET i == CHOOSE m \in starts : \A n \in starts : m <= n
                 j == DigitsEnd(line, i + 1)
                 k == DigitsEnd(line, j + 1)
             IN  <<StrToInt(SubSeq(line, i + 1, j - 1)), StrToInt(SubSeq(line, j + 1, k - 1))>>

IsBreak(c) == c \in {"\n", "\r"}

RECURSIVE LineEnd(_, _)
LineEnd(s, i) == IF i <= Len(s) /\ ~IsBreak(At(s, i)) THEN LineEnd(s, i + 1) ELSE i

RECURSIVE splitlines(_)
splitlines(s) ==
    IF s = "" THEN <<>>
    ELSE LET e == LineEnd(s, 1)
             skip == IF At(s, e) = "\r" /\ e < Len(s) /\ At(s, e + 1) = "\n" THEN 2 ELSE 1
         IN  <<SubSeq(s, 1, e - 1)>> \o splitlines(SubSeq(s, e + skip, Len(s)))

----------------------------------------------------------------------------
(* The supervisor.  Its handlers are operators on the record of its state. *)

\* what a handler did towards the outside; the log pane is written but never read back
NoEffects ==
    [handler |-> "",          \* the handler that ran last
     message_box |-> "None",  \* the title of the modal box it showed
     appended |-> <<>>,       \* the texts it passed to _append_log, in order
     signals |-> <<>>,        \* terminate and kill calls it made, in order
     start_args |-> <<>>,     \* the arguments of its process.start call
     data |-> "",             \* the output it read from the child
     asked |-> {},            \* the filesystem checks it made
     found |-> {},            \* the checks among them that answered true
     metadata_path |-> "",    \* the path it looked for metadata.json at
     exits |-> <<>>,          \* the exit codes the child delivered while it ran
     rest |-> ""]             \* output the child has written that had not arrived when it read

Handler(name) == [NoEffects EXCEPT !.handler = name]

Sup ==
    [process |-> process, procs |-> procs, start_button |-> start_button,
     stop_button |-> stop_button, progress_bar |-> progress_bar,
     status_label |-> status_label, last |-> last]

SetSup(s) ==
    /\ process' = s.process
    /\ procs' = s.procs
    /\ start_button' = s.start_button
    /\ stop_button' = s.stop_button
    /\ progress_bar' = s.progress_bar
    /\ status_label' = s.status_label
    /\ last' = s.last

Enter(s, name) == [s EXCEPT !.last = Handler(name)]

_append_log(s, text) == [s EXCEPT !.last.appended = Append(@, text)]

messagebox(s, title) == [s EXCEPT !.last.message_box = title]

\* Path(...).exists() / is_dir(): the answer comes from the filesystem
exists(s, what, fs) ==
    [s EXCEPT !.last.asked = @ \cup {what},
              !.last.found = @ \cup ({what} \cap fs)]

\* faulty variant: the two groups of the match are taken in the wrong order
_maybe_update_progress_Swapped(s, line) ==
    LET match == _progress_re_search(line)
    IN  IF match = <<>> THEN s
        ELSE LET current == match[2]
                 total == match[1]
             IN  [s EXCEPT !.progress_bar = setValue(setRange(@, 0, total), current),
                           !.status_label = "Processing " \o IntToStr(current)
                                            \o " of " \o IntToStr(total)]

_maybe_update_progress(s, line) ==
    LET match == _progress_re_search(line)
    IN  IF match = <<>> THEN s
        ELSE LET current == match[1]
                 total == match[2]
             IN  [s EXCEPT !.progress_bar = setValue(setRange(@, 0, total), current),
                           !.status_label = "Processing " \o IntToStr(current)
                                            \o " of " \o IntToStr(total)]

RECURSIVE ForEachLine(_, _)
ForEachLine(s, lines) ==
    IF lines = <<>> THEN s
    ELSE ForEachLine(_maybe_update_progress(s, Head(lines)), Tail(lines))

_handle_process_output(s, data) ==
    IF s.process = 0 THEN s
    ELSE IF data = "" THEN s
    ELSE ForEachLine(_append_log([s EXCEPT !.last.data = @ \o data], data), splitlines(data))

\* QProcess p exits with exit_code: its state, and the finished signal it emits
Exit(s, p, exit_code) ==
    [s EXCEPT !.procs[p].state = "NotRunning",
              !.last.exits = Append(@, exit_code)]

\* faulty variant: the handler leaves the start control disabled
_handle_process_finished_KeepsStart(s, exit_code) ==
    LET s1 == [s EXCEPT !.stop_button = FALSE,
                        !.progress_bar = setValue(setRange(@, 0, 1), 1),
                        !.status_label = "Finished (exit code " \o IntToStr(exit_code) \o ")"]
    IN  _append_log(s1, "Process finished with exit code " \o IntToStr(exit_code) \o ".\n")

\* faulty variant: the handler leaves the stop control enabled
_handle_process_finished_KeepsStop(s, exit_code) ==
    LET s1 == [s EXCEPT !.start_button = TRUE,
                        !.progress_bar = setValue(setRange(@, 0, 1), 1),
                        !.status_label = "Finished (exit code " \o IntToStr(exit_code) \o ")"]
    IN  _append_log(s1, "Process finished with exit code " \o IntToStr(exit_code) \o ".\n")

_handle_process_finished(s, exit_code) ==
    LET s1 == [s EXCEPT !.start_button = TRUE,
                        !.stop_button = FALSE,
                        !.progress_bar = setValue(setRange(@, 0, 1), 1),
                        !.status_label = "Finished (exit code " \o IntToStr(exit_code) \o ")"]
    IN  _append_log(s1, "Process finished with exit code " \o IntToStr(exit_code) \o ".\n")

\* faulty variant: the check compares the state with Running, and misses Starting
AlreadyRunning_OnlyRunning(s) == s.process # 0 /\ s.procs[s.process].state = "Running"

\* faulty variant: the check is left out
AlreadyRunning_Missing(s) == FALSE

\* self.process and self.process.state() != QProcess.ProcessState.NotRunning
AlreadyRunning(s) == s.process # 0 /\ s.procs[s.process].state # "NotRunning"

\* faulty variant: the HTML path is only checked for being empty
HtmlProblem_NoExists(g, s) ==
    IF Strip(g.html_path_edit) = "" THEN "Missing HTML" ELSE ""

\* the download-mode checks of _start_process: "" when they pass
HtmlProblem(g, s) ==
    LET html_path == Strip(g.html_path_edit)
    IN  IF html_path = "" THEN "Missing HTML"
        ELSE IF "html" \notin s.last.found THEN "Missing file"
        ELSE ""

\* faulty variant: an empty merge folder is let through
MergeProblem_NoEmpty(g, s) ==
    LET merge_folder == Strip(g.merge_folder_edit)
    IN  IF merge_folder # "" /\ "merge_is_dir" \notin s.last.found THEN "Invalid folder"
        ELSE ""

\* the merge-mode checks of _start_process: "" when they pass
MergeProblem(g, s) ==
    LET merge_folder == Strip(g.merge_folder_edit)
    IN  IF merge_folder = "" THEN "Missing folder"
        ELSE IF "merge_is_dir" \notin s.last.found THEN "Invalid folder"
        ELSE ""

\* faulty variant: the check looks at resume and forgets retry-failed
MetadataWarning_ResumeOnly(g, s) ==
    /\ g.resume_checkbox
    /\ "metadata" \notin s.last.found

MetadataWarning(g, s) ==
    /\ g.resume_checkbox \/ g.retry_failed_checkbox
    /\ "metadata" \notin s.last.found

\* a QProcess the window has replaced: its child is gone, and so are the
\* signals that were sent to it
Retired(p) == [p EXCEPT !.signalled = "none"]

\* the new QProcess, the widgets set for a run, and process.start
Spawn(s, g) ==
    LET args == <<"-u", ScriptPath>> \o _build_args(g)
        old == [i \in DOMAIN s.procs |-> Retired(s.procs[i])]
        s1 == [s EXCEPT !.procs = Append(old, [state |-> "NotRunning", signalled |-> "none",
                                               error |-> "UnknownError"]),
                        !.process = Len(s.procs) + 1]
        s2 == [s1 EXCEPT !.progress_bar = setRange(@, 0, 0),
                         !.status_label = "Running...",
                         !.start_button = FALSE,
                         !.stop_button = TRUE]
        s3 == _append_log(s2, "Starting process...\n")
    IN  [s3 EXCEPT !.procs[s3.process].state = "Starting",
                   !.last.start_args = args]

\* fs: the filesystem checks that would answer true
_start_process(s0, g, fs) ==
    LET s == exists(Enter(s0, "_start_process"), "script", fs)
    IN  IF "script" \notin s.last.found THEN messagebox(s, "Missing script")
        ELSE LET download_mode == g.mode_combo = 0
                 s1 == IF download_mode
                       THEN IF Strip(g.html_path_edit) = "" THEN s ELSE exists(s, "html", fs)
                       ELSE IF Strip(g.merge_folder_edit) = "" THEN s ELSE exists(s, "merge_is_dir", fs)
                 problem == IF download_mode THEN HtmlProblem(g, s1) ELSE MergeProblem(g, s1)
             IN  IF problem # "" THEN messagebox(s1, problem)
                 ELSE LET output_dir == IF Strip(g.output_path_edit) # ""
                                        THEN Strip(g.output_path_edit) ELSE "memories"
                          s2 == IF download_mode /\ (g.resume_checkbox \/ g.retry_failed_checkbox)
                                THEN [exists(s1, "metadata", fs) EXCEPT
                                         !.last.metadata_path = output_dir \o "/metadata.json"]
                                ELSE s1
                          s3 == IF download_mode /\ MetadataWarning(g, s2)
                                THEN _append_log(s2, "Warning: metadata.json not found in output folder; resume/retry may fail.\n")
                                ELSE s2
                      IN  IF AlreadyRunning(s3) THEN messagebox(s3, "Already running")
                          ELSE Spawn(s3, g)

\* faulty variant: kill is sent whether or not the wait saw the process finish
KillAfterWait_Always(finished) == TRUE

\* if not self.process.waitForFinished(2000): self.process.kill()
KillAfterWait(finished) == ~finished

\* faulty variant: the state of the process is not looked at
StopIgnored_OnlyNone(s) == s.process = 0

\* the two early returns of _stop_process: no process, or one that is not running
StopIgnored(s) == s.process = 0 \/ s.procs[s.process].state = "NotRunning"

\* outcome: how waitForFinished(2000) ends; chunk: output read while it waits
_stop_process(s0, outcome, chunk, exit_code) ==
    LET s == Enter(s0, "_stop_process")
        p == s.process
    IN  IF StopIgnored(s) THEN s
        ELSE LET s1 == [s EXCEPT !.last.signals = Append(@, "terminate"),
                                 !.procs[p].signalled = "terminate"]
                 s2 == IF outcome \in {"exited", "timeout"}
                       THEN _handle_process_output([s1 EXCEPT !.procs[p].state = "Running"], chunk)
                       ELSE s1
                 s3 == CASE outcome = "exited" ->
                              _handle_process_finished(Exit(s2, p, exit_code), exit_code)
                          [] outcome = "failed_to_start" ->
                              [s2 EXCEPT !.procs[p].state = "NotRunning",
                                         !.procs[p].error = "FailedToStart"]
                          [] OTHER -> s2
                 finished == outcome = "exited"
                 s4 == IF KillAfterWait(finished)
                       THEN [s3 EXCEPT !.last.signals = Append(@, "kill"),
                                       !.procs[p].signalled =
                                           IF s3.procs[p].state = "NotRunning" THEN @ ELSE "kill"]
                       ELSE s3
             IN  _append_log(s4, "Process stopped by user.\n")

\* how the wait of a stop can end for a process in the given state
WaitOutcomes(state) ==
    IF state = "Starting" THEN {"exited", "timeout", "failed_to_start", "not_started"}
    ELSE {"exited", "timeout"}

----------------------------------------------------------------------------
(* The user's actions on the form.  A widget takes input only while it is  *)
(* visible (_update_mode_ui) and enabled.  No form handler touches the     *)
(* supervisor.                                                             *)

SupervisorIdle ==
    /\ UNCHANGED <<process, procs, start_button, stop_button, progress_bar, status_label>>
    /\ last' = Handler("form")

ClickCheckbox(cb) ==
    /\ gui.download_visible
    /\ cb = "defer_video_overlays_checkbox" => gui.defer_enabled
    /\ gui' = setChecked(Event(gui), cb, ~gui[cb])
    /\ SupervisorIdle

SetThreads(n) ==
    /\ gui.download_visible
    /\ n # gui.threads_spin
    /\ gui' = _update_command_preview([Event(gui) EXCEPT !.threads_spin = n])
    /\ SupervisorIdle

SelectMode(index) ==
    /\ index # gui.mode_combo
    /\ gui' = _update_command_preview(_update_mode_ui([Event(gui) EXCEPT !.mode_combo = index]))
    /\ SupervisorIdle

EditHtmlPath(text) ==
    /\ gui.download_visible
    /\ gui' = setText(Event(gui), "html_path_edit", text)
    /\ SupervisorIdle

EditOutputPath(text) ==
    /\ gui.download_visible
    /\ gui' = setText(Event(gui), "output_path_edit", text)
    /\ SupervisorIdle

EditMergeFolder(text) ==
    /\ ~gui.download_visible
    /\ gui' = setText(Event(gui), "merge_folder_edit", text)
    /\ SupervisorIdle

\* the browse buttons: the dialog returns "" when cancelled
_choose_html_file(file_path) ==
    /\ gui.download_visible
    /\ gui' = IF file_path # "" THEN setText(Event(gui), "html_path_edit", file_path)
              ELSE Event(gui)
    /\ SupervisorIdle

_choose_output_folder(folder) ==
    /\ gui.download_visible
    /\ gui' = IF folder # "" THEN setText(Event(gui), "output_path_edit", folder)
              ELSE Event(gui)
    /\ SupervisorIdle

_choose_merge_folder(folder) ==
    /\ ~gui.download_visible
    /\ gui' = IF folder # "" THEN setText(Event(gui), "merge_folder_edit", folder)
              ELSE Event(gui)
    /\ SupervisorIdle

----------------------------------------------------------------------------
(* The supervisor's actions: the two buttons' slots, and the signals of    *)
(* the child processes.                                                    *)

FsChecks == {"script", "html", "metadata", "merge_is_dir"}

\* the checks among them that a start request makes in the mode the form is in
ModeChecks ==
    IF gui.mode_combo = 0 THEN {"script", "html", "metadata"} ELSE {"script", "merge_is_dir"}

\* a start request; the slot is modelled whether or not the button is enabled
Start(fs) ==
    LET s == _start_process(Sup, gui, fs)
    IN  /\ Len(s.procs) <= MaxRuns
        /\ SetSup(s)
        /\ gui' = Event(gui)

\* a stop request
Stop(outcome, chunk, exit_code) ==
    /\ process # 0 => outcome \in WaitOutcomes(procs[process].state)
    /\ SetSup(_stop_process(Sup, outcome, chunk, exit_code))
    /\ gui' = Event(gui)

\* readyReadStandardOutput of the current process, with the output it has written
ReadyRead(chunk) ==
    /\ process # 0
    /\ procs[process].state = "Running"
    /\ SetSup(_handle_process_output(Enter(Sup, "_handle_process_output"), chunk))
    /\ gui' = Event(gui)

\* readyReadStandardOutput when only the first cut characters of what the
\* child has written have arrived: the handler reads those, the rest stays in the pipe
ReadyReadPart(text, cut) ==
    /\ process # 0
    /\ procs[process].state = "Running"
    /\ cut \in 1..(Len(text) - 1)
    /\ LET s == _handle_process_output(Enter(Sup, "_handle_process_output"),
                                       SubSeq(text, 1, cut))
       IN  SetSup([s EXCEPT !.last.rest = SubSeq(text, cut + 1, Len(text))])
    /\ gui' = Event(gui)

\* readyReadStandardOutput for the rest of a write whose first part was just read
ReadyReadRest ==
    /\ process # 0
    /\ procs[process].state = "Running"
    /\ last.handler = "_handle_process_output"
    /\ last.rest # ""
    /\ SetSup(_handle_process_output(Enter(Sup, "_handle_process_output"), last.rest))
    /\ gui' = Event(gui)

\* QProcess i has started
Started(i) ==
    /\ procs[i].state = "Starting"
    /\ procs' = [procs EXCEPT ![i].state = "Running"]
    /\ last' = Handler("started")
    /\ gui' = Event(gui)
    /\ UNCHANGED <<process, start_button, stop_button, progress_bar, status_label>>

\* QProcess i could not start: errorOccurred, which has no slot; finished is not emitted
FailedToStart(i) ==
    /\ procs[i].state = "Starting"
    /\ procs' = [procs EXCEPT ![i].state = "NotRunning", ![i].error = "FailedToStart"]
    /\ last' = Handler("errorOccurred")
    /\ gui' = Event(gui)
    /\ UNCHANGED <<process, start_button, stop_button, progress_bar, status_label>>

\* QProcess i has exited: finished(exit_code, status)
Finished(i, exit_code) ==
    /\ procs[i].state = "Running"
    /\ SetSup(_handle_process_finished(
                  Exit(Enter(Sup, "_handle_process_finished"), i, exit_code), exit_code))
    /\ gui' = Event(gui)

----------------------------------------------------------------------------
(* Output of the child *)

MarkerNums == (0..MaxNum) \cup {10}

Marker(c, t) == "[" \o IntToStr(c) \o "/" \o IntToStr(t) \o "]"

\* lines of output, each with the marker it carries: <<current, total>>, or <<>> for none
LineCases ==
    {[text |-> Marker(c, t) \o " bar", marker |-> <<c, t>>] :
        c \in MarkerNums, t \in MarkerNums}
    \cup {[text |-> "foo", marker |-> <<>>],
          [text |-> "", marker |-> <<>>],
          [text |-> "[3/]", marker |-> <<>>],
          [text |-> "[/10]", marker |-> <<>>],
          [text |-> "3/10]", marker |-> <<>>],
          [text |-> "[3 /10]", marker |-> <<>>],
          [text |-> "x[2/3]", marker |-> <<2, 3>>],
          [text |-> "[03/010]", marker |-> <<3, 10>>],
          [text |-> "[[1/2] [2/2]", marker |-> <<1, 2>>]}

FirstLineCases == {l \in LineCases : l.text \in {"foo", "[1/2] bar"}}

\* chunks of one or two whole lines, each with the markers of its lines in order
ChunkCases ==
    {[data |-> l.text \o "\n", markers |-> <<l.marker>>] : l \in LineCases}
    \cup {[data |-> f.text \o "\n" \o l.text \o "\n", markers |-> <<f.marker, l.marker>>] :
             f \in FirstLineCases, l \in LineCases}
    \cup {[data |-> "", markers |-> <<>>]}

Chunks == {c.data : c \in ChunkCases}

\* writes of the child that the pipe may deliver in two parts
StreamTexts ==
    {"[1/2] bar\n", "foo\n[3/10] bar\n", "[1/2] bar\n[2/2] bar\n", "[[1/2] [2/2]\n"}

\* chunks of output for the runs of Spec: nothing to read, a plain line, a marker line
SomeChunks == {"", "foo\n", "[1/2]\n"}

\* output read while a stop waits
WaitChunks == {"", "[1/2]\n"}

----------------------------------------------------------------------------
(* Specifications *)

Init ==
    /\ gui = Constructed
    /\ process = 0
    /\ procs = <<>>
    /\ start_button = TRUE
    /\ stop_button = FALSE
    /\ progress_bar = [minimum |-> 0, maximum |-> 1, value |-> 0]
    /\ status_label = "Idle"
    /\ last = Handler("__init__")

\* the supervisor, with the form fields that _start_process reads
Next ==
    \/ \E index \in {0, 1} : SelectMode(index)
    \/ \E text \in SampleTexts : EditHtmlPath(text)
    \/ \E text \in SampleTexts : EditMergeFolder(text)
    \/ \E cb \in {"resume_checkbox", "retry_failed_checkbox"} : ClickCheckbox(cb)
    \/ \E fs \in SUBSET ModeChecks : Start(fs)
    \/ \E outcome \in WaitOutcomes("Starting") :
          \E chunk \in IF outcome \in {"exited", "timeout"} THEN WaitChunks ELSE {""} :
             \E exit_code \in IF outcome = "exited" THEN ExitCodes ELSE {0} :
                Stop(outcome, chunk, exit_code)
    \/ \E chunk \in SomeChunks : ReadyRead(chunk)
    \/ \E i \in DOMAIN procs : Started(i)
    \/ \E i \in DOMAIN procs : FailedToStart(i)
    \/ \E i \in DOMAIN procs, exit_code \in ExitCodes : Finished(i, exit_code)

Spec == Init /\ [][Next]_vars

\* the checkboxes alone
NextToggle ==
    \/ \E cb \in CheckboxSet : ClickCheckbox(cb)
    \/ \E index \in {0, 1} : SelectMode(index)

SpecToggle == Init /\ [][NextToggle]_vars

\* the command builder alone: a form state the program can be in, then one
\* more run of the preview slot, which calls _build_args
Rebuild ==
    /\ gui.preview_calls = <<>>
    /\ gui' = _update_command_preview(gui)
    /\ SupervisorIdle

InitArgs ==
    /\ \E mode \in {0, 1}, html \in SampleTexts, output \in SampleTexts,
          merge \in SampleTexts, n \in ThreadsMin..ThreadsMax,
          checked \in SUBSET CheckboxSet :
            /\ Cardinality(checked \cap {"resume_checkbox", "retry_failed_checkbox",
                                         "test_checkbox"}) <= 1
            /\ ~({"videos_only_checkbox", "pictures_only_checkbox"} \subseteq checked)
            /\ "defer_video_overlays_checkbox" \in checked
                 => "merge_overlays_checkbox" \in checked
            /\ gui = Event(_update_command_preview(_update_mode_ui(
                   [cb \in DOMAIN BuiltUi |->
                       CASE cb \in CheckboxSet -> cb \in checked
                         [] cb = "mode_combo" -> mode
                         [] cb = "html_path_edit" -> html
                         [] cb = "output_path_edit" -> output
                         [] cb = "merge_folder_edit" -> merge
                         [] cb = "threads_spin" -> n
                         [] cb = "defer_enabled" -> "merge_overlays_checkbox" \in checked
                         [] OTHER -> BuiltUi[cb]])))
    /\ process = 0
    /\ procs = <<>>
    /\ start_button = TRUE
    /\ stop_button = FALSE
    /\ progress_bar = [minimum |-> 0, maximum |-> 1, value |-> 0]
    /\ status_label = "Idle"
    /\ last = Handler("__init__")

NextArgs == Rebuild

SpecArgs == InitArgs /\ [][NextArgs]_vars

\* the output handler: one run of the child, fed chunks of whole lines
NextOutput ==
    \/ \E text \in SampleTexts : EditHtmlPath(text)
    \/ \E fs \in SUBSET FsChecks : Start(fs)
    \/ \E i \in DOMAIN procs : Started(i)
    \/ \E chunk \in Chunks : ReadyRead(chunk)

SpecOutput == Init /\ [][NextOutput]_vars

\* the form with every kind of field change, and start requests that pass the
\* filesystem checks
FormBoxes == {"resume_checkbox", "retry_failed_checkbox", "merge_overlays_checkbox",
              "defer_video_overlays_checkbox", "join_multi_snaps_checkbox"}

ThreadSamples == {ThreadsMin, 2, ThreadsMax}

DialogResults == {"", " a "}

NextForm ==
    \/ \E index \in {0, 1} : SelectMode(index)
    \/ \E text \in SampleTexts : EditHtmlPath(text)
    \/ \E text \in SampleTexts : EditOutputPath(text)
    \/ \E text \in SampleTexts : EditMergeFolder(text)
    \/ \E file_path \in DialogResults : _choose_html_file(file_path)
    \/ \E folder \in DialogResults : _choose_output_folder(folder)
    \/ \E folder \in DialogResults : _choose_merge_folder(folder)
    \/ \E cb \in FormBoxes : ClickCheckbox(cb)
    \/ \E n \in ThreadSamples : SetThreads(n)
    \/ \E fs \in {FsChecks} : Start(fs)

SpecForm == Init /\ [][NextForm]_vars

\* runs of the child under the operating system's guarantees: a process that
\* is being started starts or fails to, and a process that was sent terminate
\* or kill exits
NextLive ==
    \/ \E text \in SampleTexts : EditHtmlPath(text)
    \/ \E fs \in {FsChecks} : Start(fs)
    \/ \E outcome \in WaitOutcomes("Starting") :
          \E chunk \in IF outcome \in {"exited", "timeout"} THEN WaitChunks ELSE {""} :
             \E exit_code \in IF outcome = "exited" THEN ExitCodes ELSE {0} :
                Stop(outcome, chunk, exit_code)
    \/ \E chunk \in SomeChunks : ReadyRead(chunk)
    \/ \E i \in DOMAIN procs : Started(i)
    \/ \E i \in DOMAIN procs : FailedToStart(i)
    \/ \E i \in DOMAIN procs, exit_code \in ExitCodes : Finished(i, exit_code)

StartSettles == \E i \in DOMAIN procs : Started(i) \/ FailedToStart(i)

SignalledExits ==
    \E i \in DOMAIN procs, exit_code \in ExitCodes :
        procs[i].signalled # "none" /\ Finished(i, exit_code)

ChildExits == \E i \in DOMAIN procs, exit_code \in ExitCodes : Finished(i, exit_code)

SpecLive ==
    Init /\ [][NextLive]_vars /\ WF_vars(StartSettles) /\ WF_vars(SignalledExits)

\* the output handler fed a stream that the pipe cuts anywhere
NextStream ==
    \/ \E text \in SampleTexts : EditHtmlPath(text)
    \/ \E fs \in {FsChecks} : Start(fs)
    \/ \E i \in DOMAIN procs : Started(i)
    \/ \E chunk \in StreamTexts : ReadyRead(chunk)
    \/ \E text \in StreamTexts, cut \in 1..MaxCut : ReadyReadPart(text, cut)
    \/ ReadyReadRest

SpecStream == Init /\ [][NextStream]_vars

\* start requests alone: a form the user has filled in, then start requests
\* against every answer of the filesystem
InitStart ==
    /\ \E mode \in {0, 1}, html \in SampleTexts, output \in SampleTexts \cup {"memories"},
          merge \in SampleTexts, run \in {{}, {"resume_checkbox"}, {"retry_failed_checkbox"}} :
            gui = Event(_update_command_preview(_update_mode_ui(
                   [cb \in DOMAIN BuiltUi |->
                       CASE cb \in CheckboxSet -> cb \in run
                         [] cb = "mode_combo" -> mode
                         [] cb = "html_path_edit" -> html
                         [] cb = "output_path_edit" -> output
                         [] cb = "merge_folder_edit" -> merge
                         [] cb = "defer_enabled" -> FALSE
                         [] OTHER -> BuiltUi[cb]])))
    /\ process = 0
    /\ procs = <<>>
    /\ start_button = TRUE
    /\ stop_button = FALSE
    /\ progress_bar = [minimum |-> 0, maximum |-> 1, value |-> 0]
    /\ status_label = "Idle"
    /\ last = Handler("__init__")

NextStart ==
    \/ \E fs \in SUBSET FsChecks : Start(fs)
    \/ \E i \in DOMAIN procs : Started(i)
    \/ \E i \in DOMAIN procs, exit_code \in ExitCodes : Finished(i, exit_code)

SpecStart == InitStart /\ [][NextStart]_vars

----------------------------------------------------------------------------
(* Claims about the supervisor, checked under Spec *)

Live == {i \in DOMAIN procs : procs[i].state # "NotRunning"}

\* C1: in every reachable state at most one child process is live (starting
\* or running): no process is spawned while the current one is not NotRunning.
C1_AtMostOneLive == Cardinality(Live) <= 1

\* a start request was refused as already running, with the second process live
C1_Witness ==
    /\ last.handler = "_start_process"
    /\ last.message_box = "Already running"
    /\ Len(procs) = 2
    /\ Live = {2}

SupervisorUntouched ==
    /\ process' = process
    /\ procs' = procs
    /\ start_button' = start_button
    /\ stop_button' = stop_button
    /\ progress_bar' = progress_bar
    /\ status_label' = status_label
    /\ last'.signals = <<>>
    /\ last'.start_args = <<>>

StartRequested == last'.handler = "_start_process"

ProcessActive == process # 0 /\ procs[process].state \in {"Starting", "Running"}

\* C2: a start request made while a process is running is rejected with a
\* modal box, and spawns nothing, keeps the process handle, sends neither
\* terminate nor kill, and leaves controls, progress and status as they were.
C2_StartWhileRunningRejected ==
    [][StartRequested /\ ProcessActive
         => last'.message_box # "None" /\ SupervisorUntouched]_vars

\* a start request was refused as already running while the child ran
C2_Witness ==
    /\ last.handler = "_start_process"
    /\ last.message_box = "Already running"
    /\ process # 0
    /\ procs[process].state = "Running"
    /\ stop_button /\ ~start_button

IsBlank(text) == \A i \in 1..Len(text) : SubSeq(text, i, i) = " "

\* the precondition errors of a start request, from the answers the filesystem gave
PreconditionError ==
    \/ "script" \notin last'.found
    \/ /\ gui.mode_combo = 0
       /\ IsBlank(gui.html_path_edit) \/ "html" \notin last'.found
    \/ /\ gui.mode_combo = 1
       /\ IsBlank(gui.merge_folder_edit) \/ "merge_is_dir" \notin last'.found
    \/ ProcessActive

\* C3: a start request that hits a precondition error shows a modal box,
\* spawns nothing, leaves handle, controls, progress and status unchanged,
\* and logs no "Starting process..." line.
C3_PreconditionErrorBlocksStart ==
    [][StartRequested /\ PreconditionError
         => /\ last'.message_box # "None"
            /\ SupervisorUntouched
            /\ \A k \in DOMAIN last'.appended : last'.appended[k] # "Starting process...\n"]_vars

\* a start request was refused for a missing HTML file while a finished process is held
C3_Witness ==
    /\ last.handler = "_start_process"
    /\ last.message_box = "Missing file"
    /\ "html" \in last.asked
    /\ process # 0

----------------------------------------------------------------------------
(* Claims about the checkboxes, checked under SpecToggle *)

RunModes == {"resume_checkbox", "retry_failed_checkbox", "test_checkbox"}

Has(args, flag) == \E k \in DOMAIN args : args[k] = flag

\* the last event ran a cascade: it computed a preview before and after a programmatic clear
Cascaded == Len(gui.preview_calls) = 2

\* C4: at most one of resume, retry-failed and test is checked in every
\* reachable form state; checking one leaves the other two unchecked, and a
\* user's unchecking of one changes no other checkbox.
C4_RunModesExclusive ==
    /\ [](Cardinality({cb \in RunModes : gui[cb]}) <= 1)
    /\ [][\A cb \in RunModes :
            /\ ~gui[cb] /\ gui'[cb] => \A o \in RunModes \ {cb} : ~gui'[o]
            /\ (gui[cb] /\ ~gui'[cb] /\ \A o \in RunModes : gui'[o] => gui[o])
                 => \A o \in CheckboxSet \ {cb} : gui'[o] = gui[o]]_vars

\* retry-failed was checked while resume was, and resume got cleared
C4_Witness ==
    /\ gui.retry_failed_checkbox
    /\ ~gui.resume_checkbox
    /\ Cascaded
    /\ Has(gui.preview_calls[1], "--resume")
    /\ ~Has(gui.preview_calls[2], "--resume")

\* C5: videos-only and pictures-only are never both checked: checking either
\* unchecks the other, and neither changes overlays-only.
C5_FiltersExclusive ==
    /\ [](~(gui.videos_only_checkbox /\ gui.pictures_only_checkbox))
    /\ [][/\ ~gui.videos_only_checkbox /\ gui'.videos_only_checkbox
               => ~gui'.pictures_only_checkbox
          /\ ~gui.pictures_only_checkbox /\ gui'.pictures_only_checkbox
               => ~gui'.videos_only_checkbox
          /\ (gui'.videos_only_checkbox # gui.videos_only_checkbox
              \/ gui'.pictures_only_checkbox # gui.pictures_only_checkbox)
               => gui'.overlays_only_checkbox = gui.overlays_only_checkbox]_vars

\* pictures-only was checked while videos-only and overlays-only were
C5_Witness ==
    /\ gui.pictures_only_checkbox
    /\ gui.overlays_only_checkbox
    /\ Cascaded
    /\ Has(gui.preview_calls[1], "--videos-only")
    /\ ~Has(gui.preview_calls[2], "--videos-only")

\* C6: defer is checked only if merge-overlays is, and the defer control is
\* enabled exactly when merge-overlays is checked, from the initial state on;
\* unchecking merge-overlays unchecks and disables defer, and re-checking it
\* enables the defer control and leaves defer unchecked.
C6_DeferNeedsMerge ==
    /\ [](gui.defer_video_overlays_checkbox => gui.merge_overlays_checkbox)
    /\ [](gui.defer_enabled <=> gui.merge_overlays_checkbox)
    /\ [][/\ gui.merge_overlays_checkbox /\ ~gui'.merge_overlays_checkbox
               => ~gui'.defer_video_overlays_checkbox /\ ~gui'.defer_enabled
          /\ ~gui.merge_overlays_checkbox /\ gui'.merge_overlays_checkbox
               => gui'.defer_enabled /\ ~gui'.defer_video_overlays_checkbox]_vars

\* merge-overlays was unchecked while defer was checked
C6_Witness ==
    /\ ~gui.merge_overlays_checkbox
    /\ ~gui.defer_video_overlays_checkbox
    /\ ~gui.defer_enabled
    /\ Cascaded
    /\ Has(gui.preview_calls[1], "--defer-video-overlays")

----------------------------------------------------------------------------
(* Claims about _build_args, checked under SpecArgs *)

\* _build_args has returned for the form as it stands
Built == gui.preview_calls # <<>>

BuiltArgs == gui.preview_calls[Len(gui.preview_calls)]

NonBlanks(text) == {i \in 1..Len(text) : SubSeq(text, i, i) # " "}

\* the text without the blanks around it
Trimmed(text) ==
    IF NonBlanks(text) = {} THEN ""
    ELSE SubSeq(text,
                CHOOSE i \in NonBlanks(text) : \A j \in NonBlanks(text) : i <= j,
                CHOOSE i \in NonBlanks(text) : \A j \in NonBlanks(text) : i >= j)

Count(args, x) == Cardinality({k \in DOMAIN args : args[k] = x})

\* C7: in merge mode _build_args returns exactly <<"--merge-existing", folder>>
\* for a non-empty stripped merge folder and the empty list for an empty one,
\* whatever the HTML path, output folder, checkboxes and thread count are.
C7_MergeModeArgs ==
    (Built /\ gui.mode_combo = 1)
      => BuiltArgs = IF Trimmed(gui.merge_folder_edit) = "" THEN <<>>
                     ELSE <<"--merge-existing", Trimmed(gui.merge_folder_edit)>>

\* merge mode with a folder set, while download-only fields are set as well
C7_Witness ==
    /\ Built
    /\ gui.mode_combo = 1
    /\ BuiltArgs = <<"--merge-existing", "a">>
    /\ gui.html_path_edit = " a "
    /\ gui.resume_checkbox
    /\ gui.join_multi_snaps_checkbox
    /\ gui.threads_spin = 16

\* the flags of the checkboxes, in the order the claim gives
FlagOrder == <<"--resume", "--retry-failed", "--test", "--merge-overlays",
               "--defer-video-overlays", "--videos-only", "--pictures-only",
               "--overlays-only", "--timestamp-filenames", "--remove-duplicates",
               "--join-multi-snaps">>

BoxOrder == <<"resume_checkbox", "retry_failed_checkbox", "test_checkbox",
              "merge_overlays_checkbox", "defer_video_overlays_checkbox",
              "videos_only_checkbox", "pictures_only_checkbox",
              "overlays_only_checkbox", "timestamp_filenames_checkbox",
              "remove_duplicates_checkbox", "join_multi_snaps_checkbox">>

RECURSIVE CheckedFlagsFrom(_)
CheckedFlagsFrom(i) ==
    IF i > Len(FlagOrder) THEN <<>>
    ELSE (IF gui[BoxOrder[i]] THEN <<FlagOrder[i]>> ELSE <<>>) \o CheckedFlagsFrom(i + 1)

ExpectedDownloadArgs ==
    (IF Trimmed(gui.html_path_edit) = "" THEN <<>> ELSE <<Trimmed(gui.html_path_edit)>>)
    \o (IF Trimmed(gui.output_path_edit) = "" THEN <<>>
        ELSE <<"-o", Trimmed(gui.output_path_edit)>>)
    \o CheckedFlagsFrom(1)
    \o (IF gui.threads_spin > 1 THEN <<"--threads", ToString(gui.threads_spin)>> ELSE <<>>)

\* C8: in download mode _build_args emits the HTML path iff non-empty, then
\* -o and the output directory iff non-empty, then the flag of each checked
\* checkbox in the fixed order, then the thread flag; the flag of an unchecked
\* checkbox does not appear and no flag appears twice.
C8_DownloadArgsOrder ==
    (Built /\ gui.mode_combo = 0)
      => /\ BuiltArgs = ExpectedDownloadArgs
         /\ \A i \in 1..Len(FlagOrder) :
               Count(BuiltArgs, FlagOrder[i]) = IF gui[BoxOrder[i]] THEN 1 ELSE 0

\* download mode with both paths, flags of every group and a thread count set
C8_Witness ==
    /\ Built
    /\ gui.mode_combo = 0
    /\ BuiltArgs = <<"a", "-o", "a", "--retry-failed", "--merge-overlays",
                     "--defer-video-overlays", "--pictures-only", "--overlays-only",
                     "--remove-duplicates", "--threads", "2">>

\* C9: in download mode with thread count N in 1..16, the arguments hold no
\* --threads element when N = 1, and end with exactly --threads, str(N) when N > 1.
C9_ThreadsFlag ==
    (Built /\ gui.mode_combo = 0)
      => /\ gui.threads_spin \in 1..16
         /\ gui.threads_spin = 1 => Count(BuiltArgs, "--threads") = 0
         /\ gui.threads_spin > 1 =>
               /\ Len(BuiltArgs) >= 2
               /\ BuiltArgs[Len(BuiltArgs) - 1] = "--threads"
               /\ BuiltArgs[Len(BuiltArgs)] = ToString(gui.threads_spin)
               /\ Count(BuiltArgs, "--threads") = 1

\* a two-digit thread count at the end of the arguments, and no other argument
C9_Witness ==
    /\ Built
    /\ gui.mode_combo = 0
    /\ gui.threads_spin = 16
    /\ BuiltArgs = <<"--threads", "16">>

----------------------------------------------------------------------------
(* Claims about the output handler, checked under SpecOutput *)

OutputHandled == last'.handler = "_handle_process_output"

\* the markers among those of a chunk's lines
RECURSIVE MarkersOnly(_)
MarkersOnly(ms) ==
    IF ms = <<>> THEN <<>>
    ELSE (IF Head(ms) = <<>> THEN <<>> ELSE <<Head(ms)>>) \o MarkersOnly(Tail(ms))

\* the handler's result for a chunk whose lines carry the markers ms;
\* always: whether the value is claimed for every marker, or only for one within the range
ProgressShown(ms, always) ==
    IF MarkersOnly(ms) = <<>>
    THEN progress_bar' = progress_bar /\ status_label' = status_label
    ELSE LET m == MarkersOnly(ms)[Len(MarkersOnly(ms))]
             c == m[1]
             t == m[2]
         IN  /\ progress_bar'.minimum = 0
             /\ progress_bar'.maximum = t
             /\ (always \/ c <= t \/ t = 0) => progress_bar'.value = c
             /\ status_label' = "Processing " \o ToString(c) \o " of " \o ToString(t)

\* C10, as stated: a line with a marker [c/t] sets the range to (0, t), the
\* value to c and the status to 'Processing c of t', for all c and t; a line
\* without a marker changes neither the progress bar nor the status.
C10_ProgressFromEveryMarker ==
    [][OutputHandled =>
          \A cc \in ChunkCases : cc.data = last'.data => ProgressShown(cc.markers, TRUE)]_vars

\* C10, amended: a line with a marker [c/t] sets the range to (0, t) and the
\* status to 'Processing c of t', and the value to c when c <= t or t = 0; a
\* line without a marker changes neither the progress bar nor the status.
C10_ProgressFromMarker ==
    [][OutputHandled =>
          \A cc \in ChunkCases : cc.data = last'.data => ProgressShown(cc.markers, FALSE)]_vars

\* the chunk of the example has been handled
C10_Witness ==
    /\ last.handler = "_handle_process_output"
    /\ last.data = "foo\n[3/10] bar\n"
    /\ progress_bar = [minimum |-> 0, maximum |-> 10, value |-> 3]
    /\ status_label = "Processing 3 of 10"

----------------------------------------------------------------------------
(* Claims about stop and exit, checked under Spec *)

StopRequested == last'.handler = "_stop_process"

\* the child exited while the stop request waited for it
ExitedInGrace == last'.exits # <<>>

\* C11: a stop request on an active process calls terminate first and once;
\* it calls kill exactly once, after terminate, when the process has not
\* exited by the end of the grace wait, and never when it exited within it.
C11_TerminateThenKill ==
    [][StopRequested /\ ProcessActive
         => /\ last'.signals # <<>>
            /\ last'.signals[1] = "terminate"
            /\ Count(last'.signals, "terminate") = 1
            /\ Count(last'.signals, "kill") = IF ExitedInGrace THEN 0 ELSE 1
            /\ Len(last'.signals) <= 2]_vars

\* a stop request outwaited the grace period of a running child, and killed it
C11_Witness ==
    /\ last.handler = "_stop_process"
    /\ last.signals = <<"terminate", "kill">>
    /\ last.exits = <<>>
    /\ procs[process].state = "Running"
    /\ procs[process].signalled = "kill"

\* the child has exited, and QProcess has emitted finished
ExitDelivered == last'.exits # <<>>

IsPrefix(p, text) == Len(p) <= Len(text) /\ SubSeq(text, 1, Len(p)) = p

\* C12: on every exit of the child, after no stop, a graceful stop or a kill,
\* and for every exit code N, the finish handler leaves the start control
\* enabled, the stop control disabled, the progress bar at range (0, 1) and
\* value 1, the status 'Finished (exit code N)', and one line 'Process
\* finished with exit code N.' appended to the log.
C12_FinishHandling ==
    [][ExitDelivered
         => LET N == last'.exits[1]
            IN  /\ Len(last'.exits) = 1
                /\ start_button'
                /\ ~stop_button'
                /\ progress_bar' = [minimum |-> 0, maximum |-> 1, value |-> 1]
                /\ status_label' = "Finished (exit code " \o ToString(N) \o ")"
                /\ Count(last'.appended,
                         "Process finished with exit code " \o ToString(N) \o ".\n") = 1
                /\ Cardinality({k \in DOMAIN last'.appended :
                                   IsPrefix("Process finished", last'.appended[k])}) = 1]_vars

\* a killed child exits with a negative code
C12_Witness ==
    /\ last.handler = "_handle_process_finished"
    /\ last.exits = <<-1>>
    /\ procs[process].signalled = "kill"
    /\ procs[process].state = "NotRunning"
    /\ status_label = "Finished (exit code -1)"
    /\ start_button

----------------------------------------------------------------------------
(* Claims about start requests, checked under SpecStart *)

MetadataWarningText ==
    "Warning: metadata.json not found in output folder; resume/retry may fail.\n"

\* every blocking precondition of a download passes
DownloadMayStart ==
    /\ gui.mode_combo = 0
    /\ "script" \in last'.found
    /\ ~IsBlank(gui.html_path_edit)
    /\ "html" \in last'.found
    /\ ~ProcessActive

\* C13: a download start request whose blocking preconditions pass, with
\* resume or retry-failed checked and no metadata.json under the output
\* directory ('memories' for an empty field), appends the warning, then
\* 'Starting process...', and spawns the process; no warning is appended
\* when neither flag is checked, when metadata.json exists, or in merge mode.
C13_MetadataWarning ==
    [][StartRequested
         => /\ (/\ DownloadMayStart
                 /\ (gui.resume_checkbox \/ gui.retry_failed_checkbox)
                 /\ "metadata" \notin last'.found)
                  => /\ last'.appended = <<MetadataWarningText, "Starting process...\n">>
                     /\ last'.metadata_path =
                           (IF IsBlank(gui.output_path_edit) THEN "memories"
                            ELSE Trimmed(gui.output_path_edit)) \o "/metadata.json"
                     /\ process' = Len(procs) + 1
                     /\ procs'[process'].state = "Starting"
                     /\ last'.start_args # <<>>
            /\ (\/ gui.mode_combo = 1
                 \/ ~(gui.resume_checkbox \/ gui.retry_failed_checkbox)
                 \/ "metadata" \in last'.found)
                  => Count(last'.appended, MetadataWarningText) = 0]_vars

\* retry-failed with a blank output field: metadata.json is missed under 'memories', and the run starts
C13_Witness ==
    /\ last.handler = "_start_process"
    /\ gui.retry_failed_checkbox
    /\ gui.output_path_edit = " "
    /\ last.metadata_path = "memories/metadata.json"
    /\ last.appended = <<MetadataWarningText, "Starting process...\n">>
    /\ process = 1
    /\ procs[1].state = "Starting"

----------------------------------------------------------------------------
(* Claims about the command preview, checked under SpecForm *)

\* the command line as the preview shows it
Rendering(command) == Join([i \in 1..Len(command) |-> _display_arg(command[i])])

\* C14: after every field change, with its cascades, the preview shows the
\* rendering of the interpreter, -u, the script and _build_args of the form
\* as it stands; and the arguments a start passes to the child are those of
\* the preview shown at that moment.
C14_PreviewCurrent ==
    /\ [](gui.command_preview = Rendering(<<PythonExe, "-u", ScriptPath>> \o _build_args(gui)))
    /\ [][last'.start_args # <<>>
            => /\ last'.start_args = <<"-u", ScriptPath>> \o _build_args(gui)
               /\ gui.command_preview = Rendering(<<PythonExe>> \o last'.start_args)]_vars

\* a start after edits of paths, threads, and a checkbox cascade
C14_Witness ==
    /\ last.handler = "_start_process"
    /\ last.start_args = <<"-u", "download_memories.py", "a", "--retry-failed",
                           "--merge-overlays", "--threads", "16">>
    /\ gui.output_path_edit = " "
    /\ gui.command_preview =
         "python -u download_memories.py a --retry-failed --merge-overlays --threads 16"

----------------------------------------------------------------------------
(* Claims about the end of a run, checked under SpecLive *)

\* the last event was a stop request that acted on an active process
StopActed == last.handler = "_stop_process" /\ last.signals # <<>>

\* the current process has exited and the finish handling has run
FinishHandled ==
    /\ process # 0
    /\ procs[process].state = "NotRunning"
    /\ procs[process].error = "UnknownError"
    /\ start_button
    /\ ~stop_button
    /\ IsPrefix("Finished (exit code ", status_label)

\* the current process never started
StartFailed == process # 0 /\ procs[process].error = "FailedToStart"

RunStarted == process # 0 /\ procs[process].state = "Running"

\* C15: after a stop request on an active process whose start does not fail,
\* the process exits and the finish handling runs (start enabled, stop
\* disabled, status 'Finished ...'), given that the operating system delivers
\* the exit after terminate or kill; and every run that has started leads to
\* the finish handling, given that its child exits.
C15_StopLeadsToFinish ==
    /\ StopActed ~> (FinishHandled \/ StartFailed)
    /\ WF_vars(ChildExits) => (RunStarted ~> FinishHandled)

\* the second run was stopped, outlived the grace period, was killed and has exited
C15_Witness ==
    /\ last.handler = "_handle_process_finished"
    /\ last.exits = <<0>>
    /\ process = 2
    /\ procs[2].signalled = "kill"
    /\ FinishHandled

----------------------------------------------------------------------------
(* Claims about the output stream, checked under SpecStream *)

\* the indicator shows the last marker among ms
ShowsLast(ms) ==
    MarkersOnly(ms) # <<>>
      => LET m == MarkersOnly(ms)[Len(MarkersOnly(ms))]
         IN  /\ progress_bar'.minimum = 0
             /\ progress_bar'.maximum = m[2]
             /\ status_label' = "Processing " \o ToString(m[1]) \o " of " \o ToString(m[2])

\* the handler has read the rest of a write whose first part it read before
RestHandled == OutputHandled /\ last.rest # "" /\ last'.data = last.rest

\* C16: every line of the child's output that holds a marker produces a
\* progress update however the stream is cut into chunks, a marker that
\* straddles two chunks included: once a write has arrived, whole or in two
\* parts, the indicator shows the marker of its last marker line.
C16_MarkersSurviveChunking ==
    [][/\ (OutputHandled /\ ~RestHandled)
            => \A cc \in ChunkCases : cc.data = last'.data => ShowsLast(cc.markers)
       /\ RestHandled
            => \A cc \in ChunkCases :
                  cc.data = last.data \o last.rest => ShowsLast(cc.markers)]_vars

----------------------------------------------------------------------------
(* Claims about toggle cascades, checked under SpecToggle *)

\* the checkboxes whose checked state an event changed
Changed == {cb \in CheckboxSet : gui'[cb] # gui[cb]}

\* C17: one user toggle changes the checked state of at most one other
\* checkbox, and the cascade ends: every checkbox that changed emitted toggled
\* once (none was changed back), and at most one of them ends checked.
C17_CascadeAtMostOne ==
    [][/\ Cardinality(Changed) <= 2
       /\ Changed # {} => Len(gui'.preview_calls) = Cardinality(Changed)
       /\ Cardinality({cb \in Changed : gui'[cb]}) <= 1]_vars

\* test was checked while retry-failed was: one programmatic clear, two toggled signals
C17_Witness ==
    /\ gui.test_checkbox
    /\ ~gui.retry_failed_checkbox
    /\ Len(gui.preview_calls) = 2
    /\ Has(gui.preview_calls[1], "--retry-failed")
    /\ Has(gui.preview_calls[1], "--test")
    /\ gui.merge_overlays_checkbox
    /\ gui.defer_video_overlays_checkbox

----------------------------------------------------------------------------
(* Claims about the progress bar during a run, checked under SpecOutput *)

Indeterminate(bar) == bar.minimum = 0 /\ bar.maximum = 0

Determinate(bar) ==
    /\ bar.minimum = 0
    /\ bar.maximum > 0
    /\ 0 <= bar.value
    /\ bar.value <= bar.maximum

\* C18: during a run the progress bar is indeterminate, range (0, 0), from
\* the start until the first marker is matched, and from a matched marker on
\* it is determinate with 0 <= value <= maximum, for every marker [c/t],
\* c > t and t = 0 included.
C18_ProgressDeterminate ==
    [][/\ last'.start_args # <<>> => Indeterminate(progress_bar')
       /\ OutputHandled
            => \A cc \in ChunkCases : cc.data = last'.data
                  => IF MarkersOnly(cc.markers) = <<>>
                     THEN /\ Indeterminate(progress_bar) => Indeterminate(progress_bar')
                          /\ Determinate(progress_bar) => Determinate(progress_bar')
                     ELSE Determinate(progress_bar')]_vars

----------------------------------------------------------------------------
(* Claims about the two controls, checked under Spec *)

\* C19: between handlers the start control is enabled exactly when no child
\* process is active and the stop control exactly when one is, after any
\* start, stop, output and exit events, a child that fails to start included.
C19_ControlsFollowProcess ==
    /\ start_button <=> ~ProcessActive
    /\ stop_button <=> ProcessActive

----------------------------------------------------------------------------
(* Claims about the previews an event computes, checked under SpecToggle *)

\* the arguments hold no two flags that exclude each other
Consistent(args) ==
    /\ Cardinality({f \in {"--resume", "--retry-failed", "--test"} : Has(args, f)}) <= 1
    /\ ~(Has(args, "--videos-only") /\ Has(args, "--pictures-only"))
    /\ Has(args, "--defer-video-overlays") => Has(args, "--merge-overlays")

\* C20, as stated: every preview that is computed, those computed in the
\* middle of a toggle cascade included, is built from a form state that
\* satisfies the exclusions: none holds two of --resume, --retry-failed and
\* --test, both --videos-only and --pictures-only, or --defer-video-overlays
\* without --merge-overlays.
C20_EveryPreviewConsistent ==
    \A k \in DOMAIN gui.preview_calls : Consistent(gui.preview_calls[k])

\* C20, amended: the preview on display once an event's handlers have run,
\* which is the last one the event computed, satisfies the exclusions.
C20_DisplayedPreviewConsistent ==
    /\ Built
    /\ Consistent(BuiltArgs)
    /\ gui.command_preview = Rendering(<<PythonExe, "-u", ScriptPath>> \o BuiltArgs)

\* resume was checked while test was: the first preview of the cascade held both flags
C20_Witness ==
    /\ Cascaded
    /\ Has(gui.preview_calls[1], "--resume")
    /\ Has(gui.preview_calls[1], "--test")
    /\ BuiltArgs = <<"-o", "memories", "--resume">>
    /\ gui.command_preview = "python -u download_memories.py -o memories --resume"

----------------------------------------------------------------------------
(* Claims about what a spawn passes to the child, checked under SpecStart *)

Spawned == last'.start_args # <<>>

\* the arguments a spawn passes after -u and the script path
ScriptArgs == SubSeq(last'.start_args, 3, Len(last'.start_args))

\* C21: every process that is spawned gets a non-empty script argument list
\* that agrees with the validation of the start request: in download mode its
\* first script argument is the validated, non-empty HTML path; in merge mode
\* its script arguments are exactly --merge-existing and the validated
\* folder; the empty result of _build_args is never launched.
C21_SpawnArgsValidated ==
    [][Spawned
         => /\ Len(last'.start_args) > 2
            /\ last'.start_args[1] = "-u"
            /\ last'.start_args[2] = ScriptPath
            /\ "script" \in last'.found
            /\ gui.mode_combo = 0
                 => /\ ~IsBlank(gui.html_path_edit)
                    /\ "html" \in last'.found
                    /\ ScriptArgs[1] = Trimmed(gui.html_path_edit)
            /\ gui.mode_combo = 1
                 => /\ ~IsBlank(gui.merge_folder_edit)
                    /\ "merge_is_dir" \in last'.found
                    /\ ScriptArgs = <<"--merge-existing", Trimmed(gui.merge_folder_edit)>>]_vars

\* a merge of a folder typed with blanks around it was spawned, with download fields filled in
C21_Witness ==
    /\ last.handler = "_start_process"
    /\ gui.mode_combo = 1
    /\ gui.merge_folder_edit = " a "
    /\ gui.html_path_edit = " a "
    /\ gui.resume_checkbox
    /\ last.start_args = <<"-u", "download_memories.py", "--merge-existing", "a">>
    /\ procs[process].state = "Starting"

----------------------------------------------------------------------------
(* Claims about the effects of a stop request, checked under Spec *)

StoppedByUserText == "Process stopped by user.\n"

\* C22: a stop request with no process started yet, or with the current
\* process not running, does nothing: no terminate, no kill, nothing appended
\* to the log, and handle, controls, progress bar and status as they were;
\* a stop request that acts on an active process appends 'Process stopped by
\* user.' exactly once.
C22_StopFrame ==
    [][StopRequested
         => /\ ~ProcessActive
                 => /\ last'.signals = <<>>
                    /\ last'.appended = <<>>
                    /\ last'.exits = <<>>
                    /\ process' = process
                    /\ procs' = procs
                    /\ start_button' = start_button
                    /\ stop_button' = stop_button
                    /\ progress_bar' = progress_bar
                    /\ status_label' = status_label
            /\ ProcessActive
                 => /\ Count(last'.appended, StoppedByUserText) = 1
                    /\ last'.appended[Len(last'.appended)] = StoppedByUserText]_vars

\* a stop request after the second run has finished: nothing was done
C22_Witness ==
    /\ last.handler = "_stop_process"
    /\ process = 2
    /\ procs[2].state = "NotRunning"
    /\ last.signals = <<>>
    /\ last.appended = <<>>
    /\ status_label = "Finished (exit code 0)"
    /\ start_button

====
